---- MODULE Spec2Model ----
(***************************************************************************)
(* A model of app.py, the EMC test plan generator: the sidebar filter      *)
(* (filter_database), the column pruner (remove_empty_columns), the        *)
(* grouped report (generate_summary) and the page script (main).           *)
(*                                                                         *)
(* A DataFrame is a record [cols, index, rows]: cols is the sequence of    *)
(* column names, index the row labels, rows a sequence of functions from   *)
(* the column names to cell values.  A cell value is an integer: NA is     *)
(* pandas' missing value (NaN); 0 .. TextBase-1 is a number counted in     *)
(* tenths (105 is 10.5) or, in a categorical column, the code of a label   *)
(* (codes are given in the labels' lexicographic order); TextBase and      *)
(* above is a string that float() cannot parse.                            *)
(***************************************************************************)
EXTENDS Integers, Sequences, FiniteSets, TLC

VARIABLES pc, df, sel, filtered_df, df_display, ui, summary, cur, applied

vars == <<pc, df, sel, filtered_df, df_display, ui, summary, cur, applied>>

\* ---------------------------------------------------------------- cells

NA == -1

DC_RIPPLE == 1

AC_VDI == 2

TextBase == 10000

\* the five sidebar dimensions, in the order filter_database applies them
FilterCols == <<"PRODUCT_FEATURE", "ENTITY", "PORT_TYPE", "VOLTAGE_TYPE", "VOLTAGES">>

DcrCols == <<"DCR_Freq_[Hz]", "DCR_Level_[%]", "DCR_Criteria">>

AcvCols == <<"ACV_Apply", "ACV_Freq_[Hz]", "ACV_Cross_[deg]", "ACV_Red_[%]",
             "ACV_Dur_[Cycles]", "ACV_Dur_[ms]", "ACV_Criteria">>

SummaryCols == <<"TEST_TYPE">> \o DcrCols \o AcvCols

AllCols == FilterCols \o SummaryCols

Range(s) == {s[i] : i \in 1 .. Len(s)}

\* ---------------------------------------------------------------- tables

\* pd.notnull / Series.dropna: a cell is present when it is not NaN
notnull(v) == v # NA

\* a freshly built frame: a RangeIndex 0 .. n-1
MkTable(cols, rows) ==
    [cols |-> cols, index |-> [i \in 1 .. Len(rows) |-> i - 1], rows |-> rows]

EmptyTable == MkTable(<<>>, <<>>)

\* DataFrame.empty: any axis of length 0
empty(t) == Len(t.rows) = 0 \/ Len(t.cols) = 0

HasCol(t, c) == c \in Range(t.cols)

\* df[mask]: the rows the boolean mask keeps, with their labels, in their order
SelectRows(t, mask) ==
    LET idx == SelectSeq([i \in 1 .. Len(t.rows) |-> i], LAMBDA i : mask[i])
    IN  [cols |-> t.cols,
         index |-> [j \in 1 .. Len(idx) |-> t.index[idx[j]]],
         rows |-> [j \in 1 .. Len(idx) |-> t.rows[idx[j]]]]

\* df[c].isin(values): the mask of the rows whose cell is one of the values
isin(t, c, values) == [i \in 1 .. Len(t.rows) |-> t.rows[i][c] \in values]

\* df[c] == v
equals(t, c, v) == [i \in 1 .. Len(t.rows) |-> t.rows[i][c] = v]

\* ---------------------------------------------------------------- filter

\* the step without its `if values:` guard: an empty selection keeps no row
isin_step_unguarded(t, c, values) ==
    SelectRows(t, isin(t, c, values))

\* one `if values: df = df[df[col].isin(values)]` step; a selection is a list
\* used only for membership, so a set, and None is as falsy as the empty list
isin_step(t, c, values) ==
    IF values # {} THEN SelectRows(t, isin(t, c, values)) ELSE t

\* every step filtering the frame that was passed in instead of the narrowed one
filter_database_last_wins(t, product_features, entities, port_types, voltage_types, voltages) ==
    LET d1 == isin_step(t, "PRODUCT_FEATURE", product_features)
        d2 == IF entities # {} THEN isin_step(t, "ENTITY", entities) ELSE d1
        d3 == IF port_types # {} THEN isin_step(t, "PORT_TYPE", port_types) ELSE d2
        d4 == IF voltage_types # {} THEN isin_step(t, "VOLTAGE_TYPE", voltage_types) ELSE d3
    IN  IF voltages # {} THEN isin_step(t, "VOLTAGES", voltages) ELSE d4

filter_database(t, product_features, entities, port_types, voltage_types, voltages) ==
    LET d1 == isin_step(t, "PRODUCT_FEATURE", product_features)
        d2 == isin_step(d1, "ENTITY", entities)
        d3 == isin_step(d2, "PORT_TYPE", port_types)
        d4 == isin_step(d3, "VOLTAGE_TYPE", voltage_types)
    IN  isin_step(d4, "VOLTAGES", voltages)

\* the call of main, lines 160-167: the sidebar's five lists by keyword
FilterBySelection(t, s) ==
    filter_database(t, s["PRODUCT_FEATURE"], s["ENTITY"], s["PORT_TYPE"],
                    s["VOLTAGE_TYPE"], s["VOLTAGES"])

\* ---------------------------------------------------------------- pruner

\* dropna(how="any", axis=1): a column with one missing value is dropped
remove_empty_columns_any(t) ==
    LET kept == SelectSeq(t.cols, LAMBDA c : \A i \in 1 .. Len(t.rows) : notnull(t.rows[i][c]))
    IN  [cols |-> kept, index |-> t.index,
         rows |-> [i \in 1 .. Len(t.rows) |-> [c \in Range(kept) |-> t.rows[i][c]]]]

\* df.dropna(how="all", axis=1): keep the columns with a value that is not NaN
remove_empty_columns(t) ==
    LET kept == SelectSeq(t.cols, LAMBDA c : \E i \in 1 .. Len(t.rows) : notnull(t.rows[i][c]))
    IN  [cols |-> kept, index |-> t.index,
         rows |-> [i \in 1 .. Len(t.rows) |-> [c \in Range(kept) |-> t.rows[i][c]]]]

\* ---------------------------------------------------------------- groupby

\* ascending with NaN last: how groupby(sort=True, dropna=False) orders one key
\* column (numbers by value, strings after numbers, the NaN group last)
CellLess(a, b) == a # NA /\ (b = NA \/ a < b)

\* tuples of key columns compare component by component
KeyLess(k1, k2) ==
    \E i \in 1 .. Len(k1) :
        /\ \A j \in 1 .. i - 1 : k1[j] = k2[j]
        /\ CellLess(k1[i], k2[i])

KeyOf(r, by) == [i \in 1 .. Len(by) |-> r[by[i]]]

RECURSIVE SortKeys(_)
SortKeys(S) ==
    IF S = {} THEN <<>>
    ELSE LET m == CHOOSE k \in S : \A o \in S \ {k} : KeyLess(k, o)
         IN  <<m>> \o SortKeys(S \ {m})

\* the keys in the order their first rows appear (groupby(sort=False))
RECURSIVE FirstSeen(_, _)
FirstSeen(ks, seen) ==
    IF ks = <<>> THEN <<>>
    ELSE IF Head(ks) \in seen THEN FirstSeen(Tail(ks), seen)
    ELSE <<Head(ks)>> \o FirstSeen(Tail(ks), seen \cup {Head(ks)})

RowKeys(t, by) == [i \in 1 .. Len(t.rows) |-> KeyOf(t.rows[i], by)]

Groups(t, by, keys) ==
    [g \in 1 .. Len(keys) |->
        [key |-> keys[g],
         frame |-> SelectRows(t, [i \in 1 .. Len(t.rows) |-> KeyOf(t.rows[i], by) = keys[g]])]]

\* groupby(by) with its default dropna=True: rows with a NaN key are dropped
groupby_dropna(t, by) ==
    Groups(t, by, SortKeys({k \in Range(RowKeys(t, by)) : \A i \in 1 .. Len(k) : notnull(k[i])}))

\* groupby(by, sort=False, dropna=False): groups in order of first appearance
groupby_unsorted(t, by) ==
    Groups(t, by, FirstSeen(RowKeys(t, by), {}))

\* df.groupby(by, dropna=False), iterated: one (key, frame) per distinct key
\* tuple, NaN keys included, in ascending key order
groupby(t, by) ==
    Groups(t, by, SortKeys(Range(RowKeys(t, by))))

\* ---------------------------------------------------------------- summary

NoPlanText == "No test plan available for the selected criteria."

\* a line of the report: its kind, its fixed text, the key values its f-string
\* interpolates, and the duration and criteria strings built for it
Line(kind, text, key, duration, criteria) ==
    [kind |-> kind, text |-> text, key |-> key, duration |-> duration, criteria |-> criteria]

TitleLine(text) == Line("title", text, <<>>, "", "")

BlankLine == Line("blank", "", <<>>, "", "")

\* what a call gives: the exception flag and, when it returned, the lines of
\* the returned string (the string split at its line breaks)
Returned(lines) == [raised |-> FALSE, text |-> lines]

KeyError == [raised |-> TRUE, text |-> <<>>]

\* the labels of the criteria codes, A < B < C
CriteriaLabel(c) == <<"A", "B", "C">>[c]

RECURSIVE SortInts(_)
SortInts(S) ==
    IF S = {} THEN <<>>
    ELSE LET m == CHOOSE x \in S : \A y \in S : x <= y
         IN  <<m>> \o SortInts(S \ {m})

RECURSIVE JoinStr(_, _)
JoinStr(parts, sep) ==
    IF parts = <<>> THEN ""
    ELSE IF Len(parts) = 1 THEN parts[1]
    ELSE parts[1] \o sep \o JoinStr(Tail(parts), sep)

\* the criteria string without the "TBD" fallback: no criteria gives ""
criteria_str_no_tbd(frame, col) ==
    LET all_criteria == SortInts({frame.rows[i][col] : i \in 1 .. Len(frame.rows)} \ {NA})
    IN  JoinStr([i \in 1 .. Len(all_criteria) |-> CriteriaLabel(all_criteria[i])], ", ")

\* sorted(frame[col].dropna().unique()), joined with ", ", or "TBD"
criteria_str(frame, col) ==
    LET all_criteria == SortInts({frame.rows[i][col] : i \in 1 .. Len(frame.rows)} \ {NA})
    IN  IF all_criteria # <<>>
        THEN JoinStr([i \in 1 .. Len(all_criteria) |-> CriteriaLabel(all_criteria[i])], ", ")
        ELSE "TBD"

\* float(v) succeeds on a number; a string that is no number raises ValueError
ParsesAsFloat(v) == v < TextBase

\* str(v) of a cell holding such a string
RawText(v) == "text" \o ToString(v - TextBase)

\* the duration part always printed as the float: 10.0 gives "10.0 cycles"
duration_part_float(v, unit) ==
    IF ~notnull(v) THEN <<>>
    ELSE IF ParsesAsFloat(v)
         THEN <<ToString(v \div 10) \o "." \o ToString(v % 10) \o unit>>
         ELSE <<RawText(v) \o unit>>

\* lines 92-100 and 101-109: nothing for NaN; a whole number as an int, any
\* other number as the float prints; the raw value when float() fails
duration_part(v, unit) ==
    IF ~notnull(v) THEN <<>>
    ELSE IF ParsesAsFloat(v)
         THEN IF v % 10 = 0
              THEN <<ToString(v \div 10) \o unit>>
              ELSE <<ToString(v \div 10) \o "." \o ToString(v % 10) \o unit>>
         ELSE <<RawText(v) \o unit>>

\* lines 91-114
duration_str(dur_cycles, dur_ms) ==
    LET duration_parts == duration_part(dur_cycles, " cycles") \o duration_part(dur_ms, " ms")
    IN  JoinStr(IF duration_parts = <<>> THEN <<"-">> ELSE duration_parts, ", ")

RECURSIVE Concat(_)
Concat(ss) == IF ss = <<>> THEN <<>> ELSE Head(ss) \o Concat(Tail(ss))

HasCols(t, cs) == \A i \in 1 .. Len(cs) : HasCol(t, cs[i])

DcKey == <<"DCR_Freq_[Hz]", "DCR_Level_[%]">>

AcOuterKey == <<"ACV_Apply", "ACV_Freq_[Hz]", "ACV_Cross_[deg]">>

AcInnerKey == <<"ACV_Red_[%]", "ACV_Dur_[Cycles]", "ACV_Dur_[ms]">>

\* lines 64-72: the DC Ripple section, or the KeyError of a column that is
\* not in the frame (the grouping columns at line 67, the criteria at line 69)
dc_section(t) ==
    LET dc_ripple_df == SelectRows(t, equals(t, "TEST_TYPE", DC_RIPPLE))
        grouped_dc == groupby(dc_ripple_df, DcKey)
    IN  IF empty(dc_ripple_df) THEN Returned(<<>>)
        ELSE IF ~HasCols(t, DcKey) \/ ~HasCol(t, "DCR_Criteria") THEN KeyError
        ELSE Returned(
                <<TitleLine("### DC Ripple Tests")>>
                \o [g \in 1 .. Len(grouped_dc) |->
                       Line("dc", "", grouped_dc[g].key, "",
                            criteria_str(grouped_dc[g].frame, "DCR_Criteria"))]
                \o <<BlankLine>>)

\* lines 85-118: the indented lines of one outer group
ac_inner_lines(group_df) ==
    LET sub_group == groupby(group_df, AcInnerKey)
    IN  [s \in 1 .. Len(sub_group) |->
            Line("inner", "", sub_group[s].key,
                 duration_str(sub_group[s].key[2], sub_group[s].key[3]),
                 criteria_str(sub_group[s].frame, "ACV_Criteria"))]

\* lines 75-120: the AC VDI section, or the KeyError of a missing column
\* (lines 78, 85 and 87)
ac_section(t) ==
    LET ac_vdi_df == SelectRows(t, equals(t, "TEST_TYPE", AC_VDI))
        grouped_ac_vdi == groupby(ac_vdi_df, AcOuterKey)
    IN  IF empty(ac_vdi_df) THEN Returned(<<>>)
        ELSE IF ~HasCols(t, AcOuterKey) \/ ~HasCols(t, AcInnerKey) \/ ~HasCol(t, "ACV_Criteria")
             THEN KeyError
        ELSE Returned(
                <<TitleLine("### AC VDI Tests")>>
                \o Concat([g \in 1 .. Len(grouped_ac_vdi) |->
                       <<Line("head", "", grouped_ac_vdi[g].key, "", "")>>
                       \o ac_inner_lines(grouped_ac_vdi[g].frame)
                       \o <<BlankLine>>]))

\* str.strip() of the joined lines: the blank lines at either end go
RECURSIVE StripTail(_)
StripTail(ls) ==
    IF ls # <<>> /\ ls[Len(ls)] = BlankLine THEN StripTail(SubSeq(ls, 1, Len(ls) - 1)) ELSE ls

RECURSIVE StripHead(_)
StripHead(ls) == IF ls # <<>> /\ Head(ls) = BlankLine THEN StripHead(Tail(ls)) ELSE ls

strip(ls) == StripHead(StripTail(ls))

NoPlan == Returned(<<Line("message", NoPlanText, <<>>, "", "")>>)

\* generate_summary, lines 58-123
generate_summary(t) ==
    IF empty(t) THEN NoPlan
    ELSE IF ~HasCol(t, "TEST_TYPE") THEN KeyError
    ELSE IF dc_section(t).raised \/ ac_section(t).raised THEN KeyError
    ELSE LET final_summary == strip(dc_section(t).text \o ac_section(t).text)
         IN  IF final_summary # <<>> THEN Returned(final_summary) ELSE NoPlan

\* ---------------------------------------------------------------- inputs

MaxFilterRows == 2

MaxPruneRows == 2

MaxSummaryRows == 3

MaxMainRows == 2

\* the frames of up to n rows drawn from a pool, over the columns cols
TablesFrom(cols, pool, n) ==
    {MkTable(cols, rows) : rows \in UNION {[1 .. k -> pool] : k \in 0 .. n}}

\* DataFrame[cols]: the frame cut down to some of its columns
Project(t, cols) ==
    [cols |-> cols, index |-> t.index,
     rows |-> [i \in 1 .. Len(t.rows) |-> [c \in Range(cols) |-> t.rows[i][c]]]]

FilterRow(pf, en, pt, vt, v) ==
    [c \in Range(FilterCols) |->
        CASE c = "PRODUCT_FEATURE" -> pf
          [] c = "ENTITY" -> en
          [] c = "PORT_TYPE" -> pt
          [] c = "VOLTAGE_TYPE" -> vt
          [] OTHER -> v]

FilterPool ==
    {FilterRow(1, 1, 1, 1, 1), FilterRow(1, 2, 1, 2, NA),
     FilterRow(2, 1, NA, 1, 2), FilterRow(NA, 1, 2, 1, 1)}

\* what a caller may pass for one dimension: nothing, one value, two values
\* (3 is a value no row holds)
SelectionOptions == {{}, {1}, {2, 3}}

SummaryRow(tt, dcr, acv) ==
    [c \in Range(SummaryCols) |->
        CASE c = "TEST_TYPE" -> tt
          [] c = "DCR_Freq_[Hz]" -> dcr[1]
          [] c = "DCR_Level_[%]" -> dcr[2]
          [] c = "DCR_Criteria" -> dcr[3]
          [] c = "ACV_Apply" -> acv[1]
          [] c = "ACV_Freq_[Hz]" -> acv[2]
          [] c = "ACV_Cross_[deg]" -> acv[3]
          [] c = "ACV_Red_[%]" -> acv[4]
          [] c = "ACV_Dur_[Cycles]" -> acv[5]
          [] c = "ACV_Dur_[ms]" -> acv[6]
          [] OTHER -> acv[7]]

NoDcr == <<NA, NA, NA>>

NoAcv == <<NA, NA, NA, NA, NA, NA, NA>>

DcRow(freq, level, criteria) == SummaryRow(DC_RIPPLE, <<freq, level, criteria>>, NoAcv)

AcRow(apply, freq, cross, red, cycles, ms, criteria) ==
    SummaryRow(AC_VDI, NoDcr, <<apply, freq, cross, red, cycles, ms, criteria>>)

\* a row of a test type the report does not cover (3), or of none
OtherRow(tt) == SummaryRow(tt, NoDcr, NoAcv)

SummaryPool ==
    {DcRow(500, 800, 2), DcRow(500, 800, 1), DcRow(NA, 800, NA),
     AcRow(1, 500, 0, 300, 100, NA, 2), AcRow(1, 500, 0, 300, 100, NA, 1),
     AcRow(1, 500, 0, 300, NA, 25, 1), AcRow(1, 500, 0, 200, 105, 2000, NA),
     AcRow(1, 500, 0, NA, NA, NA, 1), AcRow(2, 600, NA, 300, TextBase + 1, NA, 3),
     OtherRow(3)}

\* the column sets a caller may pass: all of them, all but TEST_TYPE, none
SummaryColumnSets == {SummaryCols, DcrCols \o AcvCols, <<>>}

SummaryTables ==
    {Project(t, cols) : t \in TablesFrom(SummaryCols, SummaryPool, MaxSummaryRows),
                        cols \in SummaryColumnSets}

PruneCols == <<"TEST_TYPE", "DCR_Freq_[Hz]", "DCR_Criteria">>

PruneTables ==
    UNION {TablesFrom(cols, [Range(cols) -> {NA, 1, 2}], MaxPruneRows) :
              cols \in {PruneCols, <<"TEST_TYPE">>, <<>>}}

NotCalled == [raised |-> FALSE, text |-> <<>>]

NoSelection == [c \in Range(FilterCols) |-> {}]

\* ---------------------------------------------------------------- filter_database alone

InitFilter ==
    /\ pc = "filter_start"
    /\ df \in TablesFrom(FilterCols, FilterPool, MaxFilterRows)
    /\ sel \in [Range(FilterCols) -> SelectionOptions]
    /\ filtered_df = EmptyTable
    /\ df_display = EmptyTable
    /\ ui = <<>>
    /\ summary = NotCalled
    /\ cur = df
    /\ applied = {}

\* one call of filter_database on the whole selection
FilterAll ==
    /\ pc = "filter_start"
    /\ filtered_df' = FilterBySelection(df, sel)
    /\ pc' = "filtered"
    /\ UNCHANGED <<df, sel, df_display, ui, summary, cur, applied>>

\* the constraints one at a time, in any order: the step of column c on the
\* frame narrowed so far
ApplyColumn(c) ==
    /\ pc = "filtered"
    /\ c \notin applied
    /\ cur' = isin_step(cur, c, sel[c])
    /\ applied' = applied \cup {c}
    /\ UNCHANGED <<pc, df, sel, filtered_df, df_display, ui, summary>>

NextFilter == FilterAll \/ \E c \in Range(FilterCols) : ApplyColumn(c)

SpecFilter == InitFilter /\ [][NextFilter]_vars

\* ---------------------------------------------------------------- remove_empty_columns alone

InitPrune ==
    /\ pc = "prune_start"
    /\ df \in PruneTables
    /\ sel = NoSelection
    /\ filtered_df = EmptyTable
    /\ df_display = EmptyTable
    /\ ui = <<>>
    /\ summary = NotCalled
    /\ cur = EmptyTable
    /\ applied = {}

PruneOnce ==
    /\ pc = "prune_start"
    /\ filtered_df' = remove_empty_columns(df)
    /\ pc' = "pruned"
    /\ UNCHANGED <<df, sel, df_display, ui, summary, cur, applied>>

PruneAgain ==
    /\ pc = "pruned"
    /\ df_display' = remove_empty_columns(filtered_df)
    /\ pc' = "pruned_twice"
    /\ UNCHANGED <<df, sel, filtered_df, ui, summary, cur, applied>>

NextPrune == PruneOnce \/ PruneAgain

SpecPrune == InitPrune /\ [][NextPrune]_vars

\* ---------------------------------------------------------------- generate_summary alone

InitSummary ==
    /\ pc = "summary_start"
    /\ df \in SummaryTables
    /\ sel = NoSelection
    /\ filtered_df = EmptyTable
    /\ df_display = EmptyTable
    /\ ui = <<>>
    /\ summary = NotCalled
    /\ cur = EmptyTable
    /\ applied = {}

\* generate_summary on the frame as it is
SummarizeDirect ==
    /\ pc = "summary_start"
    /\ df_display' = df
    /\ summary' = generate_summary(df)
    /\ pc' = "summarized"
    /\ UNCHANGED <<df, sel, filtered_df, ui, cur, applied>>

\* generate_summary on the pruned frame, as main calls it
SummarizePruned ==
    /\ pc = "summary_start"
    /\ df_display' = remove_empty_columns(df)
    /\ summary' = generate_summary(remove_empty_columns(df))
    /\ pc' = "summarized"
    /\ UNCHANGED <<df, sel, filtered_df, ui, cur, applied>>

NextSummary == SummarizeDirect \/ SummarizePruned

SpecSummary == InitSummary /\ [][NextSummary]_vars

\* ---------------------------------------------------------------- main

\* a row of the sheet: the five sidebar columns and the test's own columns
MainPool ==
    {FilterRow(1, 1, 1, 1, 1) @@ DcRow(500, 800, 2),
     FilterRow(1, 2, 1, 1, 1) @@ DcRow(500, 800, NA),
     FilterRow(2, 1, 1, 1, 1) @@ AcRow(1, 500, 0, 300, 100, NA, 1),
     FilterRow(1, 1, 2, 1, 1) @@ AcRow(1, 500, 0, 300, 100, 2000, 2),
     FilterRow(2, 2, 1, 1, 1) @@ OtherRow(3),
     FilterRow(2, 1, 1, 1, 2) @@ OtherRow(NA),
     FilterRow(NA, NA, NA, NA, NA) @@ OtherRow(NA)}

\* what pd.read_csv can give: the sheet's columns and any rows, none included
SourceTables == TablesFrom(AllCols, MainPool, MaxMainRows)

\* df[c].dropna().unique().tolist(): the options one multiselect offers
Options(t, c) == {t.rows[i][c] : i \in 1 .. Len(t.rows)} \ {NA}

\* lines 173-176: copy, reset_index(drop=True), index + 1
Renumbered(t) == [cols |-> t.cols, index |-> [i \in 1 .. Len(t.rows) |-> i], rows |-> t.rows]

Init ==
    /\ pc = "start"
    /\ df = EmptyTable
    /\ sel = NoSelection
    /\ filtered_df = EmptyTable
    /\ df_display = EmptyTable
    /\ ui = <<>>
    /\ summary = NotCalled
    /\ cur = EmptyTable
    /\ applied = {}

\* load_data, lines 17-19: read_csv returns the sheet
LoadOk ==
    /\ pc = "start"
    /\ df' \in SourceTables
    /\ ui' = ui \o <<"load_data">>
    /\ pc' = "loaded"
    /\ UNCHANGED <<sel, filtered_df, df_display, summary, cur, applied>>

\* load_data, lines 20-22: read_csv raises; the error is shown and an empty
\* frame returned
LoadFails ==
    /\ pc = "start"
    /\ df' = EmptyTable
    /\ ui' = ui \o <<"load_data", "st.error: Error loading data">>
    /\ pc' = "loaded"
    /\ UNCHANGED <<sel, filtered_df, df_display, summary, cur, applied>>

\* lines 132-134
NoData ==
    /\ pc = "loaded"
    /\ empty(df)
    /\ ui' = ui \o <<"st.error: No data available">>
    /\ pc' = "returned"
    /\ UNCHANGED <<df, sel, filtered_df, df_display, summary, cur, applied>>

\* lines 137-157: the user's choice in each of the five multiselects
Sidebar ==
    /\ pc = "loaded"
    /\ ~empty(df)
    /\ sel' \in [Range(FilterCols) -> SUBSET UNION {Options(df, c) : c \in Range(FilterCols)}]
    /\ \A c \in Range(FilterCols) : sel'[c] \subseteq Options(df, c)
    /\ ui' = ui \o <<"multiselect">>
    /\ pc' = "selected"
    /\ UNCHANGED <<df, filtered_df, df_display, summary, cur, applied>>

\* lines 160-167
Filter ==
    /\ pc = "selected"
    /\ filtered_df' = FilterBySelection(df, sel)
    /\ ui' = ui \o <<"filter_database">>
    /\ pc' = "filtered"
    /\ UNCHANGED <<df, sel, df_display, summary, cur, applied>>

\* line 170
Prune ==
    /\ pc = "filtered"
    /\ filtered_df' = remove_empty_columns(filtered_df)
    /\ ui' = ui \o <<"remove_empty_columns">>
    /\ pc' = "pruned"
    /\ UNCHANGED <<df, sel, df_display, summary, cur, applied>>

\* lines 173-176
Renumber ==
    /\ pc = "pruned"
    /\ df_display' = Renumbered(filtered_df)
    /\ pc' = "numbered"
    /\ UNCHANGED <<df, sel, filtered_df, ui, summary, cur, applied>>

\* the grid shown whatever the frame holds (no `if not df_display.empty`)
ShowGrid_unguarded ==
    /\ pc = "numbered"
    /\ ui' = ui \o <<"AgGrid">>
    /\ pc' = "grid"
    /\ UNCHANGED <<df, sel, filtered_df, df_display, summary, cur, applied>>

\* lines 182-206
ShowGrid ==
    /\ pc = "numbered"
    /\ ~empty(df_display)
    /\ ui' = ui \o <<"AgGrid">>
    /\ pc' = "grid"
    /\ UNCHANGED <<df, sel, filtered_df, df_display, summary, cur, applied>>

\* lines 212-213
Warn ==
    /\ pc = "numbered"
    /\ empty(df_display)
    /\ ui' = ui \o <<"st.warning: No matching test cases found">>
    /\ pc' = "returned"
    /\ UNCHANGED <<df, sel, filtered_df, df_display, summary, cur, applied>>

\* lines 209-211: the summary is shown, or the exception of generate_summary
\* ends the run of the script
Summarize ==
    /\ pc = "grid"
    /\ summary' = generate_summary(df_display)
    /\ IF summary'.raised
       THEN ui' = ui \o <<"generate_summary">> /\ pc' = "raised"
       ELSE ui' = ui \o <<"generate_summary", "st.markdown">> /\ pc' = "returned"
    /\ UNCHANGED <<df, sel, filtered_df, df_display, cur, applied>>

Next ==
    \/ LoadOk
    \/ LoadFails
    \/ NoData
    \/ Sidebar
    \/ Filter
    \/ Prune
    \/ Renumber
    \/ ShowGrid
    \/ Warn
    \/ Summarize

Spec == Init /\ [][Next]_vars

\* ================================================================ claims

\* a row satisfies a selection: in every column with a non-empty selection its
\* value is one of the selected ones
Matches(r, s) == \A c \in Range(FilterCols) : s[c] = {} \/ r[c] \in s[c]

\* the positions of the rows of t that satisfy s, ascending
MatchingPositions(t, s) ==
    SelectSeq([i \in 1 .. Len(t.rows) |-> i], LAMBDA i : Matches(t.rows[i], s))

\* C1: filter_database returns exactly the rows whose value in every column
\* with a non-empty selection is selected (AND across columns, OR within one),
\* in their original order and with their labels; an empty selection does not
\* restrict.
C1_FilterKeepsMatchingRows ==
    pc = "filtered" =>
        LET kept == MatchingPositions(df, sel)
        IN  /\ filtered_df.cols = df.cols
            /\ Len(filtered_df.rows) = Len(kept)
            /\ \A j \in 1 .. Len(kept) :
                   /\ filtered_df.rows[j] = df.rows[kept[j]]
                   /\ filtered_df.index[j] = df.index[kept[j]]

\* two constrained columns and a free one, and one row of two kept
C1_Witness ==
    /\ pc = "filtered"
    /\ sel["PRODUCT_FEATURE"] # {}
    /\ sel["VOLTAGE_TYPE"] # {}
    /\ sel["ENTITY"] = {}
    /\ Len(df.rows) = 2
    /\ Len(filtered_df.rows) = 1
    /\ filtered_df.rows[1] = df.rows[2]

\* C2: the per-column constraints applied one at a time, in any order, give
\* what filter_database gives, and what testing all constraints at once gives.
C2_OrderIndependent ==
    (pc = "filtered" /\ applied = Range(FilterCols)) =>
        /\ cur = filtered_df
        /\ cur.rows = SelectSeq(df.rows, LAMBDA r : Matches(r, sel))

\* all five columns applied, three of them constrained, some rows dropped
C2_Witness ==
    /\ pc = "filtered"
    /\ applied = Range(FilterCols)
    /\ Cardinality({c \in Range(FilterCols) : sel[c] # {}}) = 3
    /\ Len(cur.rows) = 1
    /\ Len(df.rows) = 2

\* C7: remove_empty_columns keeps exactly the columns with a non-missing
\* value, in their order, with every row, its label and its cells; pruning
\* a pruned frame changes nothing; an empty frame gives an empty frame.
C7_PruneKeepsNonEmptyColumns ==
    /\ pc \in {"pruned", "pruned_twice"} =>
          /\ filtered_df.cols =
                SelectSeq(df.cols, LAMBDA c : \E i \in 1 .. Len(df.rows) : df.rows[i][c] # NA)
          /\ filtered_df.index = df.index
          /\ Len(filtered_df.rows) = Len(df.rows)
          /\ \A i \in 1 .. Len(df.rows) :
                /\ DOMAIN filtered_df.rows[i] = Range(filtered_df.cols)
                /\ \A c \in Range(filtered_df.cols) : filtered_df.rows[i][c] = df.rows[i][c]
          /\ (empty(df) => empty(filtered_df))
    /\ pc = "pruned_twice" => df_display = filtered_df

\* two rows, a column dropped, and a kept column that has a missing cell
C7_Witness ==
    /\ pc = "pruned_twice"
    /\ Len(df.rows) = 2
    /\ Len(df.cols) = 3
    /\ Len(df_display.cols) = 2
    /\ \E c \in Range(df_display.cols) : \E i \in 1 .. 2 : df.rows[i][c] = NA

\* ---------------------------------------------------------------- the report

\* the value of a row in a column; a column the frame does not have is a
\* missing value
Cell(r, c) == IF c \in DOMAIN r THEN r[c] ELSE NA

\* the rows of the frame generate_summary was given that are of test type tt
RowsOfType(tt) ==
    {i \in 1 .. Len(df_display.rows) : Cell(df_display.rows[i], "TEST_TYPE") = tt}

Tuple(r, by) == [k \in 1 .. Len(by) |-> Cell(r, by[k])]

\* the positions of the report's lines of one kind
LinesOf(kind) == {i \in 1 .. Len(summary.text) : summary.text[i].kind = kind}

\* the header line an indented line stands under: the last header before it
\* (0 when there is none)
HeadOf(i) ==
    LET before == {j \in LinesOf("head") : j < i}
    IN  IF before = {} THEN 0 ELSE CHOOSE j \in before : \A k \in before : k <= j

\* the criteria field of a group whose non-missing criteria are those of S:
\* the labels sorted and joined with ", ", or "TBD"
CriteriaText(S) ==
    CASE S = {} -> "TBD"
      [] S = {1} -> "A"
      [] S = {2} -> "B"
      [] S = {3} -> "C"
      [] S = {1, 2} -> "A, B"
      [] S = {1, 3} -> "A, C"
      [] S = {2, 3} -> "B, C"
      [] OTHER -> "A, B, C"

Returns == pc = "summarized" /\ ~summary.raised

\* C3: generate_summary returns a string and never raises, whatever the
\* frame's rows and columns; main, which prunes before it summarizes, never
\* fails on it.
C3_NeverRaises == ~summary.raised

\* C4: the result is the "No test plan" message exactly when the frame has no
\* row of type DC Ripple or AC VDI (or no row at all), and holds the section
\* of every covered test type that has a row otherwise.
C4_NoPlanIffNoCoveredRow ==
    pc = "summarized" =>
        /\ summary = NoPlan <=> (RowsOfType(DC_RIPPLE) = {} /\ RowsOfType(AC_VDI) = {})
        /\ RowsOfType(DC_RIPPLE) # {} =>
              \E i \in LinesOf("title") : summary.text[i].text = "### DC Ripple Tests"
        /\ RowsOfType(AC_VDI) # {} =>
              \E i \in LinesOf("title") : summary.text[i].text = "### AC VDI Tests"
        /\ \A i \in LinesOf("dc") : RowsOfType(DC_RIPPLE) # {}
        /\ \A i \in LinesOf("head") \cup LinesOf("inner") : RowsOfType(AC_VDI) # {}

NumberText(v) ==
    CASE v = 100 -> "10"
      [] v = 105 -> "10.5"
      [] v = 25 -> "2.5"
      [] v = 2000 -> "200"
      [] OTHER -> RawText(v)

\* C6: the duration of an inner line is "<cycles> cycles", "<ms> ms", both
\* (cycles first, joined with ", ") or "-" according to which of the two
\* values are present; 10.0 prints as 10, 10.5 as 10.5, and a value that is
\* no number prints as it stands.
C6_DurationText ==
    Returns =>
        \A i \in LinesOf("inner") :
            LET c == summary.text[i].key[2]
                m == summary.text[i].key[3]
            IN  summary.text[i].duration =
                    CASE c = NA /\ m = NA -> "-"
                      [] c # NA /\ m = NA -> NumberText(c) \o " cycles"
                      [] c = NA /\ m # NA -> NumberText(m) \o " ms"
                      [] OTHER -> NumberText(c) \o " cycles, " \o NumberText(m) \o " ms"

\* a whole number of cycles, a fractional one with milliseconds, and a value
\* that is no number, in one report
C6_Witness ==
    /\ Returns
    /\ \E i \in LinesOf("inner") : summary.text[i].duration = "10 cycles"
    /\ \E i \in LinesOf("inner") : summary.text[i].duration = "10.5 cycles, 200 ms"
    /\ \E i \in LinesOf("inner") : summary.text[i].duration = "text1 cycles"

\* the AC VDI rows under the outer key ok (and, with ik, the inner key ik)
AcRowsOf(ok) ==
    {j \in RowsOfType(AC_VDI) : Tuple(df_display.rows[j], AcOuterKey) = ok}

Precedes(k1, k2) ==
    \E n \in 1 .. Len(k1) :
        /\ \A j \in 1 .. n - 1 : k1[j] = k2[j]
        /\ k1[n] # NA
        /\ (k2[n] = NA \/ k1[n] < k2[n])

\* the frame with its rows in the opposite order
Reversed(t) ==
    [cols |-> t.cols,
     index |-> [i \in 1 .. Len(t.rows) |-> t.index[Len(t.rows) + 1 - i]],
     rows |-> [i \in 1 .. Len(t.rows) |-> t.rows[Len(t.rows) + 1 - i]]]

\* C9: the report does not depend on the order of the rows: the DC Ripple
\* lines come before the AC VDI lines, and the lines of one grouping level
\* (DC lines, headers, the indented lines of one header) ascend by key,
\* missing last.
C9_LinesAscendByKey ==
    Returns =>
        /\ \A i \in LinesOf("dc") : \A j \in LinesOf("head") \cup LinesOf("inner") : i < j
        /\ \A i, j \in LinesOf("dc") : i < j => Precedes(summary.text[i].key, summary.text[j].key)
        /\ \A i, j \in LinesOf("head") : i < j => Precedes(summary.text[i].key, summary.text[j].key)
        /\ \A i, j \in LinesOf("inner") :
               (i < j /\ HeadOf(i) = HeadOf(j)) => Precedes(summary.text[i].key, summary.text[j].key)
        /\ generate_summary(Reversed(df_display)) = summary

\* the rows arrive in descending key order (the missing frequency first, the
\* AC VDI row before the DC Ripple rows) and the report has both sections
C9_Witness ==
    /\ Returns
    /\ Len(df_display.rows) = 3
    /\ Cell(df_display.rows[1], "TEST_TYPE") = AC_VDI
    /\ Tuple(df_display.rows[2], DcKey) = <<NA, 800>>
    /\ Tuple(df_display.rows[3], DcKey) = <<500, 800>>
    /\ Cardinality(LinesOf("dc")) = 2
    /\ LinesOf("head") # {}

\* ---------------------------------------------------------------- the page

Shown(e) == e \in Range(ui)

\* the steps of main that ui records, in the order they were taken
StepsTaken ==
    SelectSeq(ui, LAMBDA e : e \in {"load_data", "filter_database", "remove_empty_columns",
                                      "AgGrid", "generate_summary"})

IsPrefix(a, b) == Len(a) <= Len(b) /\ SubSeq(b, 1, Len(a)) = a

\* C10: main loads, filters, prunes, displays and summarizes in that order;
\* an empty sheet is reported as an error before any filtering; a filtered
\* and pruned frame without rows gets the warning, no grid and no summary;
\* generate_summary is called only on a frame with a row, which is the
\* filtered, pruned frame numbered 1..N.
C10_MainStepsInOrder ==
    /\ IsPrefix(StepsTaken, <<"load_data", "filter_database", "remove_empty_columns",
                              "AgGrid", "generate_summary">>)
    /\ (pc # "start" /\ empty(df)) =>
          /\ ~Shown("filter_database")
          /\ pc \in {"loaded", "returned"}
          /\ pc = "returned" => ui[Len(ui)] = "st.error: No data available"
    /\ (pc = "returned" /\ Shown("remove_empty_columns") /\ Len(df_display.rows) = 0) =>
          /\ ui[Len(ui)] = "st.warning: No matching test cases found"
          /\ ~Shown("AgGrid")
          /\ ~Shown("generate_summary")
    /\ Shown("generate_summary") =>
          LET kept == MatchingPositions(df, sel)
              cols == SelectSeq(df.cols,
                                LAMBDA c : \E j \in 1 .. Len(kept) : df.rows[kept[j]][c] # NA)
          IN  /\ Len(df_display.rows) >= 1
              /\ df_display.cols = cols
              /\ df_display.index = [j \in 1 .. Len(kept) |-> j]
              /\ df_display.rows =
                     [j \in 1 .. Len(kept) |-> [c \in Range(cols) |-> df.rows[kept[j]][c]]]

\* a run that filtered rows out, pruned columns and showed the summary
C10_Witness ==
    /\ pc = "returned"
    /\ ui = <<"load_data", "multiselect", "filter_database", "remove_empty_columns",
              "AgGrid", "generate_summary", "st.markdown">>
    /\ Len(df_display.rows) < Len(df.rows)
    /\ Len(df_display.cols) < Len(df.cols)
    /\ df_display.index = <<1>>

====
